---------------------------- MODULE Spec2Model ----------------------------
(***************************************************************************)
(* Model of the WS2812/WS2813 SPI driver: the timing tables of             *)
(* src/src/timings.rs, the frame encoder that uses them, the SPI adapter   *)
(* of src/src/adapter_spi.rs and the strobo example program.               *)
(***************************************************************************)
EXTENDS Integers, Sequences, FiniteSets, TLC

VARIABLES
    pc,                     \* position of the running scenario
    variant,                \* LED variant whose table is used
    b1, b2, enc1, enc2,     \* encodeByte: two inputs and their encodings
    dataBits, spiStream,     \* a run of data bits and its transport bytes  
    T, p, bits,             \* reset computation: duration, bit period, count
    colors, frame,          \* encodeStrip: the pixels and the encoded frame
    i, white_display_bytes, empty_display_bytes,   \* locals of main
    sinkBuf, outstanding, writes,                  \* transport sink seen by main
    devState, devOptions, devOps, handle, newResult,   \* SPI adapter construction
    waLen, devWrites, devOutcome, waResult             \* one write_all call

encVars     == <<b1, b2, enc1, enc2>>
streamVars  == <<dataBits, spiStream>>
resetVars   == <<T, p, bits>>
stripVars   == <<colors, frame>>
mainVars    == <<i, white_display_bytes, empty_display_bytes, sinkBuf, outstanding, writes>>
adapterVars == <<devState, devOptions, devOps, handle, newResult,
                 waLen, devWrites, devOutcome, waResult>>
vars == <<pc, variant, encVars, streamVars, resetVars, stripVars, mainVars, adapterVars>>

---------------------------------------------------------------------------
(* timings.rs: constants *)

PI_SPI_HZ == 15600000
PI_SPI_NS_PER_BIT == 64
TRESET_NS == 300000
SPI_BYTES_PER_DATA_BIT == 2

Byte == 0..255
Variants == {"WS2812", "WS2813"}

WS2812_LOGICAL_ZERO_BYTES == <<248, 0>>      \* 0b1111_1000, 0b0000_0000
WS2813_ZERO_CopiedFromWS2812 == <<248, 0>>
WS2813_LOGICAL_ZERO_BYTES == <<240, 0>>      \* 0b1111_0000, 0b0000_0000
WS2812_ONE_AsZero == <<248, 0>>
WS2812_LOGICAL_ONE_BYTES == <<255, 128>>     \* 0b1111_1111, 0b1000_0000
WS2813_ONE_NibbleSwapped == <<255, 12>>
WS2813_LOGICAL_ONE_BYTES == <<255, 192>>     \* 0b1111_1111, 0b1100_0000

\* The reset count of timings.rs:52 for a reset duration T_ns and a bit
\* period p_ns (u64 integer division, plus one).
ResetBitsNoPlusOne(T_ns, p_ns) == T_ns \div p_ns
ResetBitsFromPredecessor(T_ns, p_ns) == (T_ns - 1) \div p_ns
ResetBits(T_ns, p_ns) == T_ns \div p_ns + 1
TRESET_BITS == ResetBits(TRESET_NS, PI_SPI_NS_PER_BIT)

\* The tolerance windows the comments of timings.rs document, in ns.
Tolerance(v) ==
    IF v = "WS2812"
    THEN [T0H |-> <<350 - 150, 350 + 150>>, T0L |-> <<800 - 150, 800 + 150>>,
          T1H |-> <<700 - 150, 700 + 150>>, T1L |-> <<600 - 150, 600 + 150>>]
    ELSE [T0H |-> <<220, 380>>, T0L |-> <<580, 1600>>,
          T1H |-> <<580, 1600>>, T1L |-> <<220, 420>>]

\* TimingTable of a variant; the reset padding is TRESET_BITS units long.
Table(v) ==
    [bytes_per_data_bit |-> SPI_BYTES_PER_DATA_BIT,
     zero_pattern |-> IF v = "WS2812" THEN WS2812_LOGICAL_ZERO_BYTES
                                      ELSE WS2813_LOGICAL_ZERO_BYTES,
     one_pattern  |-> IF v = "WS2812" THEN WS2812_LOGICAL_ONE_BYTES
                                      ELSE WS2813_LOGICAL_ONE_BYTES,
     reset_byte_count |-> TRESET_BITS]

---------------------------------------------------------------------------
(* FrameEncoder *)

\* encodeByte: test the top bit, emit its pattern, shift the u8 left; 8 times.
RECURSIVE encodeBits(_, _, _)
encodeBits(table, byte, n) ==
    IF n = 0 THEN <<>>
    ELSE (IF byte \div 128 = 1 THEN table.one_pattern ELSE table.zero_pattern)
         \o encodeBits(table, (byte * 2) % 256, n - 1)

encodeByte(table, byte) == encodeBits(table, byte, 8)

\* encodeColor: the three channels, each through encodeByte, in the order
\* the LED shifts them in (green, red, blue on the WS281x family).
encodeColor(table, color) ==
    encodeByte(table, color.g) \o encodeByte(table, color.r) \o encodeByte(table, color.b)

\* encode_rgb(r, g, b) of the example: the encoding of one pixel.
encode_rgb(v, r, g, b) == encodeColor(Table(v), [r |-> r, g |-> g, b |-> b])

Zeros(n) == [k \in 1..n |-> 0]

RECURSIVE encodePixels(_, _)
encodePixels(table, cs) ==
    IF cs = <<>> THEN <<>>
    ELSE encodeColor(table, Head(cs)) \o encodePixels(table, Tail(cs))

\* encodeStrip: every pixel in strip order, then reset_byte_count zero bytes.
encodeStripNoReset(table, cs) == encodePixels(table, cs)
encodeStrip(table, cs) == encodePixels(table, cs) \o Zeros(table.reset_byte_count)

RECURSIVE Pow2(_)
Pow2(n) == IF n = 0 THEN 1 ELSE 2 * Pow2(n - 1)

Bit(byte, j) == (byte \div Pow2(j)) % 2

\* MSB-first bits of a sequence of transport bytes
ToBits(s) ==
    [k \in 1..(8 * Len(s)) |-> Bit(s[(k - 1) \div 8 + 1], 7 - ((k - 1) % 8))]

\* number of leading 1 bits of a bit sequence
RECURSIVE LeadingOnes(_)
LeadingOnes(bs) ==
    IF bs = <<>> \/ Head(bs) = 0 THEN 0 ELSE 1 + LeadingOnes(Tail(bs))

\* number of trailing 0 bits of a bit sequence
RECURSIVE TrailingZeros(_)
TrailingZeros(bs) ==
    IF bs = <<>> \/ bs[Len(bs)] = 1 THEN 0
    ELSE 1 + TrailingZeros(SubSeq(bs, 1, Len(bs) - 1))

\* longest run of consecutive 0 bits of bs[lo..hi], by halving: a segment is
\* summarised by its leading low run, its trailing low run, its longest low
\* run and its length
Max(x, y) == IF x >= y THEN x ELSE y

MergeRuns(l, r) ==
    [pre  |-> IF l.pre = l.len THEN l.len + r.pre ELSE l.pre,
     suf  |-> IF r.suf = r.len THEN r.len + l.suf ELSE r.suf,
     best |-> Max(Max(l.best, r.best), l.suf + r.pre),
     len  |-> l.len + r.len]

RECURSIVE LowRuns(_, _, _)
LowRuns(bs, lo, hi) ==
    IF lo = hi
    THEN LET z == IF bs[lo] = 0 THEN 1 ELSE 0
         IN  [pre |-> z, suf |-> z, best |-> z, len |-> 1]
    ELSE LET mid == (lo + hi) \div 2
         IN  MergeRuns(LowRuns(bs, lo, mid), LowRuns(bs, mid + 1, hi))

LongestLowRun(bs) == IF bs = <<>> THEN 0 ELSE LowRuns(bs, 1, Len(bs)).best

---------------------------------------------------------------------------
(* Idle values of the parts a scenario does not use *)

EncIdle     == b1 = 0 /\ b2 = 0 /\ enc1 = <<>> /\ enc2 = <<>>
StreamIdle  == dataBits = <<>> /\ spiStream = <<>>
ResetIdle   == T = 0 /\ p = 0 /\ bits = 0
StripIdle   == colors = <<>> /\ frame = <<>>
MainIdle    == /\ i = 0 /\ white_display_bytes = <<>> /\ empty_display_bytes = <<>>
               /\ sinkBuf = <<>> /\ outstanding = FALSE /\ writes = 0
AdapterIdle == /\ devState = "closed" /\ devOptions = <<>> /\ devOps = <<>>
               /\ handle = FALSE /\ newResult = <<>>
               /\ waLen = 0 /\ devWrites = 0 /\ devOutcome = "none" /\ waResult = <<>>

---------------------------------------------------------------------------
(* Scenario: encodeByte on every pair of byte values *)

InitEncode ==
    /\ pc = "encode"
    /\ variant \in Variants
    /\ b1 \in Byte /\ b2 \in Byte
    /\ enc1 = <<>> /\ enc2 = <<>>
    /\ StreamIdle /\ ResetIdle /\ StripIdle /\ MainIdle /\ AdapterIdle

EncodeBytes ==
    /\ pc = "encode"
    /\ enc1' = encodeByte(Table(variant), b1)
    /\ enc2' = encodeByte(Table(variant), b2)
    /\ pc' = "encoded"
    /\ UNCHANGED <<variant, b1, b2, streamVars, resetVars, stripVars, mainVars, adapterVars>>

NextEncode == EncodeBytes

SpecEncode == InitEncode /\ [][NextEncode]_vars

\* The part of C1 that does not depend on the worked example.
EncodeByteBitwise(zero, one) ==
    /\ Len(enc1) = 8 * 2
    /\ \A k \in 0..7 :
         SubSeq(enc1, 2 * k + 1, 2 * k + 2)
             = IF Bit(b1, 7 - k) = 1 THEN one ELSE zero
    /\ b1 = 0 => enc1 = zero \o zero \o zero \o zero \o zero \o zero \o zero \o zero
    /\ b1 = 255 => enc1 = one \o one \o one \o one \o one \o one \o one \o one

\* C1 as stated: encodeByte(table, b) is the concatenation, for bit 7 down
\* to bit 0, of the one pattern where the bit is 1 and the zero pattern
\* where it is 0, for the WS2812 table (zero F8 00, one FF 80) and the
\* WS2813 table (zero F0 00, one FF C0); so its length is 16, 0x00 gives the
\* zero pattern 8 times, 0xFF the one pattern 8 times, and WS2812
\* 0b1010_0000 gives FF 80, FF 80, F8 00, FF 80, F8 00, F8 00, F8 00, F8 00.
C1_Original ==
    pc = "encoded" =>
        LET zero == IF variant = "WS2812" THEN <<248, 0>> ELSE <<240, 0>>
            one  == IF variant = "WS2812" THEN <<255, 128>> ELSE <<255, 192>>
        IN  /\ EncodeByteBitwise(zero, one)
            /\ (variant = "WS2812" /\ b1 = 160) =>
                 enc1 = <<255, 128, 255, 128, 248, 0, 255, 128,
                          248, 0, 248, 0, 248, 0, 248, 0>>

\* C1 amended: as C1, except that WS2812 0b1010_0000 gives one, zero, one,
\* zero and four more zero patterns (FF 80, F8 00, FF 80, F8 00, F8 00,
\* F8 00, F8 00, F8 00); the sequence C1 lists is the encoding of
\* 0b1101_0000.
C1_EncodeByteIsBitwisePatterns ==
    pc = "encoded" =>
        LET zero == IF variant = "WS2812" THEN <<248, 0>> ELSE <<240, 0>>
            one  == IF variant = "WS2812" THEN <<255, 128>> ELSE <<255, 192>>
        IN  /\ EncodeByteBitwise(zero, one)
            /\ (variant = "WS2812" /\ b1 = 160) =>
                 enc1 = <<255, 128, 248, 0, 255, 128, 248, 0,
                          248, 0, 248, 0, 248, 0, 248, 0>>
            /\ (variant = "WS2812" /\ b1 = 208) =>
                 enc1 = <<255, 128, 255, 128, 248, 0, 255, 128,
                          248, 0, 248, 0, 248, 0, 248, 0>>

C1_Witness ==
    /\ pc = "encoded" /\ variant = "WS2812" /\ b1 = 160
    /\ Len(enc1) = 16 /\ SubSeq(enc1, 1, 4) = <<255, 128, 248, 0>>

\* C2: encodeByte is injective for each variant table: two distinct byte
\* values never have the same encoding.
C2_EncodeByteInjective ==
    (pc = "encoded" /\ b1 # b2) => enc1 # enc2

C2_Witness == pc = "encoded" /\ variant = "WS2813" /\ b1 = 1 /\ b2 = 0 /\ enc1 # enc2

---------------------------------------------------------------------------
(* Scenario: a run of data bits sent as their transport byte patterns *)

MaxDataBits == 6

InitStream ==
    /\ pc = "stream"
    /\ variant \in Variants
    /\ dataBits = <<>> /\ spiStream = <<>>
    /\ EncIdle /\ ResetIdle /\ StripIdle /\ MainIdle /\ AdapterIdle

\* one more data bit: its one or zero pattern follows on the wire
AppendDataBit ==
    /\ pc = "stream"
    /\ Len(dataBits) < MaxDataBits
    /\ \E bit \in {0, 1} :
         /\ dataBits' = Append(dataBits, bit)
         /\ spiStream' = spiStream \o (IF bit = 1 THEN Table(variant).one_pattern
                                                  ELSE Table(variant).zero_pattern)
    /\ UNCHANGED <<pc, variant, encVars, resetVars, stripVars, mainVars, adapterVars>>

NextStream == AppendDataBit

SpecStream == InitStream /\ [][NextStream]_vars

\* the transport bytes of the k-th data bit
Window(k) ==
    SubSeq(spiStream, SPI_BYTES_PER_DATA_BIT * (k - 1) + 1, SPI_BYTES_PER_DATA_BIT * k)

\* high and low duration of a data-bit window, in ns
HighNs(window) == LeadingOnes(ToBits(window)) * PI_SPI_NS_PER_BIT
LowNs(window)  == TrailingZeros(ToBits(window)) * PI_SPI_NS_PER_BIT
Within(x, w) == w[1] <= x /\ x <= w[2]

\* C5: for each variant, the zero and the one pattern, clocked MSB-first at
\* 64 ns per transport bit, have a high and a low duration inside the
\* tolerance windows documented for that variant.
C5_PatternsWithinTolerance ==
    \A k \in 1..Len(dataBits) :
        LET tol == Tolerance(variant)
        IN  IF dataBits[k] = 1
            THEN Within(HighNs(Window(k)), tol.T1H) /\ Within(LowNs(Window(k)), tol.T1L)
            ELSE Within(HighNs(Window(k)), tol.T0H) /\ Within(LowNs(Window(k)), tol.T0L)

\* a bit sequence that is a non-empty run of 1s followed by a non-empty run of 0s
OnePulse(bs) ==
    LET h == LeadingOnes(bs)
    IN  /\ h >= 1 /\ h < Len(bs)
        /\ \A k \in (h + 1)..Len(bs) : bs[k] = 0

\* C10: in the MSB-first bit stream of any run of encoded data bits, every
\* 16-bit data-bit window is a non-empty run of 1s followed by a non-empty
\* run of 0s, so the longest run of low bits is at most 12 bits (768 ns),
\* strictly shorter than TRESET_NS.
C10_NoResetInsideData ==
    LET bs == ToBits(spiStream)
    IN  /\ Len(bs) = 16 * Len(dataBits)
        /\ \A w \in 0..(Len(dataBits) - 1) :
             OnePulse(SubSeq(bs, 16 * w + 1, 16 * w + 16))
        /\ LongestLowRun(bs) <= 12
        /\ LongestLowRun(bs) * PI_SPI_NS_PER_BIT <= 768
        /\ LongestLowRun(bs) * PI_SPI_NS_PER_BIT < TRESET_NS

C10_Witness ==
    /\ variant = "WS2813" /\ Len(dataBits) = 3
    /\ dataBits = <<0, 0, 1>>
    /\ LongestLowRun(ToBits(spiStream)) = 12

---------------------------------------------------------------------------
(* Scenario: the reset count for a reset duration and a bit period *)

MaxT == 40
MaxP == 8

InitReset ==
    /\ pc = "reset"
    /\ variant = "WS2813"
    /\ T \in (1..MaxT) \cup {TRESET_NS}
    /\ p \in (1..MaxP) \cup {PI_SPI_NS_PER_BIT}
    /\ bits = 0
    /\ EncIdle /\ StreamIdle /\ StripIdle /\ MainIdle /\ AdapterIdle

ComputeResetBits ==
    /\ pc = "reset"
    /\ bits' = ResetBits(T, p)
    /\ pc' = "reset_done"
    /\ UNCHANGED <<variant, T, p, encVars, streamVars, stripVars, mainVars, adapterVars>>

NextReset == ComputeResetBits

SpecReset == InitReset /\ [][NextReset]_vars

CeilDiv(a, b) == (a + b - 1) \div b

\* C3 as stated: for TRESET_NS = 300_000 and a 64 ns bit period the reset
\* count, the constant TRESET_BITS, is ceil(300000/64) + 1 = 4689.
C3_Original ==
    (pc = "reset_done" /\ T = 300000 /\ p = 64) =>
        /\ bits = CeilDiv(300000, 64) + 1
        /\ bits = 4689
        /\ TRESET_BITS = 4689

\* C3 amended: for TRESET_NS = 300_000 and a 64 ns bit period the reset
\* count, the constant TRESET_BITS, is floor(300000/64) + 1 = 4688, which is
\* ceil(300000/64) with no further unit of margin.
C3_ResetBitsIs4688 ==
    (pc = "reset_done" /\ T = 300000 /\ p = 64) =>
        /\ bits = 4688
        /\ bits = CeilDiv(300000, 64)
        /\ TRESET_BITS = bits

C3_Witness == pc = "reset_done" /\ T = TRESET_NS /\ p = PI_SPI_NS_PER_BIT /\ bits > 0

\* C4: the reset count never rounds down: for positive T and p the count
\* T / p + 1 is at least ceil(T / p), so count * p >= T; for T = 300_000
\* and p = 64 that many low transport bits last at least 300_000 ns.
C4_ResetNeverRoundsDown ==
    pc = "reset_done" =>
        /\ bits >= CeilDiv(T, p)
        /\ bits * p >= T
        /\ (T = 300000 /\ p = 64) => bits * 64 >= 300000

C4_Witness == pc = "reset_done" /\ T = 7 /\ p = 7 /\ bits * p >= T

---------------------------------------------------------------------------
(* Scenario: encodeStrip on a strip of pixels *)

Black == [r |-> 0, g |-> 0, b |-> 0]
White == [r |-> 255, g |-> 255, b |-> 255]
ColorSamples == {Black, White, [r |-> 255, g |-> 0, b |-> 160]}
MaxPixels == 3

InitStrip ==
    /\ pc = "strip"
    /\ variant \in Variants
    /\ colors = <<>> /\ frame = <<>>
    /\ EncIdle /\ StreamIdle /\ ResetIdle /\ MainIdle /\ AdapterIdle

\* the caller collects the pixels of the strip
AddPixel ==
    /\ pc = "strip"
    /\ Len(colors) < MaxPixels
    /\ \E c \in ColorSamples : colors' = Append(colors, c)
    /\ UNCHANGED <<pc, variant, frame, encVars, streamVars, resetVars, mainVars, adapterVars>>

EncodeStrip ==
    /\ pc = "strip"
    /\ frame' = encodeStrip(Table(variant), colors)
    /\ pc' = "strip_done"
    /\ UNCHANGED <<variant, colors, encVars, streamVars, resetVars, mainVars, adapterVars>>

NextStrip == AddPixel \/ EncodeStrip

SpecStrip == InitStrip /\ [][NextStrip]_vars

\* C6: encodeStrip(table, colors) is encodeColor of each pixel in strip
\* order followed by reset_byte_count zero bytes: its length is
\* 24 * n * bytes_per_data_bit + reset_byte_count, its k-th block of
\* 24 * bytes_per_data_bit bytes is encodeColor(table, colors[k]), its last
\* reset_byte_count bytes are zero, and the empty strip gives exactly
\* reset_byte_count zero bytes.
C6_StripIsPixelsThenReset ==
    pc = "strip_done" =>
        LET table == Table(variant)
            n     == Len(colors)
            blk   == 24 * table.bytes_per_data_bit
            rbc   == table.reset_byte_count
        IN  /\ Len(frame) = 24 * n * table.bytes_per_data_bit + rbc
            /\ \A k \in 1..n :
                 SubSeq(frame, blk * (k - 1) + 1, blk * k) = encodeColor(table, colors[k])
            /\ \A j \in (Len(frame) - rbc + 1)..Len(frame) : frame[j] = 0
            /\ rbc > 0
            /\ n = 0 => (Len(frame) = rbc /\ \A j \in 1..Len(frame) : frame[j] = 0)

C6_Witness ==
    /\ pc = "strip_done" /\ Len(colors) = 2 /\ colors[1] = White /\ colors[2] = Black
    /\ Len(frame) > 96 /\ frame[1] = 255 /\ frame[Len(frame)] = 0

---------------------------------------------------------------------------
(* Scenario: the strobo example program *)

NumLeds == 64

InitMain ==
    /\ pc = "setup"
    /\ variant \in Variants
    /\ MainIdle
    /\ EncIdle /\ StreamIdle /\ ResetIdle /\ StripIdle /\ AdapterIdle

othersOfMain == <<variant, encVars, streamVars, resetVars, stripVars, adapterVars>>

\* setup_spi("/dev/spidev0.0").unwrap()
SetupSpi ==
    /\ pc = "setup"
    /\ \E ok \in BOOLEAN : pc' = IF ok THEN "fill_white" ELSE "panicked"
    /\ UNCHANGED <<mainVars, othersOfMain>>

\* for _ in 0..64 { white_display_bytes.extend_from_slice(&encode_rgb(255, 255, 255)) }
FillWhite ==
    /\ pc = "fill_white"
    /\ IF i < NumLeds
       THEN /\ white_display_bytes' = white_display_bytes \o encode_rgb(variant, 255, 255, 255)
            /\ i' = i + 1
            /\ pc' = pc
       ELSE /\ i' = 0
            /\ pc' = "fill_empty"
            /\ UNCHANGED white_display_bytes
    /\ UNCHANGED <<empty_display_bytes, sinkBuf, outstanding, writes, othersOfMain>>

\* for _ in 0..64 { empty_display_bytes.extend_from_slice(&encode_rgb(0, 0, 0)) }
FillEmpty ==
    /\ pc = "fill_empty"
    /\ IF i < NumLeds
       THEN /\ empty_display_bytes' = empty_display_bytes \o encode_rgb(variant, 0, 0, 0)
            /\ i' = i + 1
            /\ pc' = pc
       ELSE /\ i' = 0
            /\ pc' = "write_white"
            /\ UNCHANGED empty_display_bytes
    /\ UNCHANGED <<white_display_bytes, sinkBuf, outstanding, writes, othersOfMain>>

\* spi.write_all(&buf): the buffer is handed to the sink
WriteStart(at, buf, during) ==
    /\ pc = at
    /\ ~outstanding
    /\ sinkBuf' = buf
    /\ outstanding' = TRUE
    /\ writes' = writes + 1
    /\ pc' = during
    /\ UNCHANGED <<i, white_display_bytes, empty_display_bytes, othersOfMain>>

\* the write returns; .unwrap() panics on a failure
WriteReturn(during, after) ==
    /\ pc = during
    /\ outstanding
    /\ outstanding' = FALSE
    /\ \E ok \in BOOLEAN : pc' = IF ok THEN after ELSE "panicked"
    /\ UNCHANGED <<i, white_display_bytes, empty_display_bytes, sinkBuf, writes, othersOfMain>>

\* sleep_busy_waiting(ms): the frame is over, the next one follows
Sleep(at, next) ==
    /\ pc = at
    /\ writes' = 0
    /\ pc' = next
    /\ UNCHANGED <<i, white_display_bytes, empty_display_bytes, sinkBuf, outstanding, othersOfMain>>

WriteWhite       == WriteStart("write_white", white_display_bytes, "writing_white")
WriteWhiteReturn == WriteReturn("writing_white", "sleep_1")
SleepOne         == Sleep("sleep_1", "write_empty")
WriteEmpty       == WriteStart("write_empty", empty_display_bytes, "writing_empty")
WriteEmptyReturn == WriteReturn("writing_empty", "sleep_24")
SleepRest        == Sleep("sleep_24", "write_white")

NextMain ==
    \/ SetupSpi \/ FillWhite \/ FillEmpty
    \/ WriteWhite \/ WriteWhiteReturn \/ SleepOne
    \/ WriteEmpty \/ WriteEmptyReturn \/ SleepRest

SpecMain == InitMain /\ [][NextMain]_vars

Strip(c) == [k \in 1..NumLeds |-> c]

\* C7: every buffer handed to the transport sink is a complete EncodedFrame
\* (all per-pixel encodings in strip order followed by the reset padding),
\* fully assembled before the write was issued; each frame is carried by
\* exactly one write_all call, and no second write to the device starts
\* while a write is outstanding.
C7_SinkGetsCompleteFrames ==
    /\ writes > 0 =>
         /\ sinkBuf \in {encodeStrip(Table(variant), Strip(White)),
                         encodeStrip(Table(variant), Strip(Black))}
         /\ Len(white_display_bytes) = 24 * NumLeds * SPI_BYTES_PER_DATA_BIT
         /\ Len(empty_display_bytes) = 24 * NumLeds * SPI_BYTES_PER_DATA_BIT
    /\ writes <= 1
    /\ outstanding => (writes = 1 /\ ~ENABLED WriteWhite /\ ~ENABLED WriteEmpty)

\* What the example does hand to the sink: all 64 pixel encodings, fully
\* assembled, in one write per frame and never two writes at once, with no
\* reset padding after them (the latch is the pause between two writes).
MainHandsPixelDataOnly ==
    /\ writes > 0 =>
         /\ sinkBuf \in {encodeStripNoReset(Table(variant), Strip(White)),
                         encodeStripNoReset(Table(variant), Strip(Black))}
         /\ Len(sinkBuf) = 24 * NumLeds * SPI_BYTES_PER_DATA_BIT
    /\ writes <= 1
    /\ outstanding => (writes = 1 /\ ~ENABLED WriteWhite /\ ~ENABLED WriteEmpty)

---------------------------------------------------------------------------
(* Scenario: WS28xxSpiAdapter::new, then write_all calls on the adapter *)

MaxWrites == 3
MaxBufLen == 2

Ok == <<"Ok">>
Err(msg) == <<"Err", msg>>

\* SpidevOptions of SpiHwAdapterDev::new
SpiOptions == [bits_per_word |-> 8, max_speed_hz |-> PI_SPI_HZ, mode |-> 0]

\* Spidev::open(dev)?  -  go on only when the device opened
AfterOpen(ok) == IF ok THEN "new_configure" ELSE "new_failed"

\* spi.configure(&options)?; Ok(Self(spi))  -  a handle only when configured
AfterConfigureUnchecked(ok) == "ready"
AfterConfigure(ok) == IF ok THEN "ready" ELSE "new_failed"

\* the message write_all maps a device failure to
WriteAllErrWithoutCount(len) == Err(<<"Failed to send", 0, "bytes via SPI">>)
WriteAllErr(len) == Err(<<"Failed to send", len, "bytes via SPI">>)

\* write_all after the device write: map the outcome and return, no loop
AfterDeviceWriteRetrying(outcome) == IF outcome = "err" THEN "wa_called" ELSE "wa_return"
AfterDeviceWrite(outcome) == "wa_return"

InitAdapter ==
    /\ pc = "new_open"
    /\ variant = "WS2813"
    /\ AdapterIdle
    /\ EncIdle /\ StreamIdle /\ ResetIdle /\ StripIdle /\ MainIdle

othersOfAdapter == <<variant, encVars, streamVars, resetVars, stripVars, mainVars>>
writeAllVars == <<waLen, devWrites, devOutcome, waResult>>

\* SpiHwAdapterDev::new: Spidev::open(dev)?
OpenDevice ==
    /\ pc = "new_open"
    /\ \E ok \in BOOLEAN :
         /\ devOps' = Append(devOps, [op |-> "open", ok |-> ok, len |-> 0])
         /\ devState' = IF ok THEN "open" ELSE "closed"
         /\ newResult' = IF ok THEN newResult ELSE Err("open")
         /\ pc' = AfterOpen(ok)
    /\ UNCHANGED <<devOptions, handle, writeAllVars, othersOfAdapter>>

\* SpiHwAdapterDev::new: spi.configure(&options)?; Ok(Self(spi)), which
\* WS28xxSpiAdapter::new boxes and returns; a failure drops the Spidev
ConfigureDevice ==
    /\ pc = "new_configure"
    /\ \E ok \in BOOLEAN :
         /\ devOps' = Append(devOps, [op |-> "configure", ok |-> ok, len |-> 0])
         /\ devState' = IF ok THEN "configured"
                        ELSE IF AfterConfigure(ok) = "ready" THEN "open" ELSE "closed"
         /\ devOptions' = IF ok THEN <<SpiOptions>> ELSE devOptions
         /\ pc' = AfterConfigure(ok)
         /\ handle' = (AfterConfigure(ok) = "ready")
         /\ newResult' = IF AfterConfigure(ok) = "ready" THEN Ok ELSE Err("configure")
    /\ UNCHANGED <<writeAllVars, othersOfAdapter>>

\* the owner of the adapter calls write_all(&encoded_data)
CallWriteAll ==
    /\ pc = "ready"
    /\ handle
    /\ Len(devOps) < 2 + MaxWrites
    /\ \E len \in 0..MaxBufLen : waLen' = len
    /\ devWrites' = 0
    /\ devOutcome' = "none"
    /\ waResult' = <<>>
    /\ pc' = "wa_called"
    /\ UNCHANGED <<devState, devOptions, devOps, handle, newResult, othersOfAdapter>>

\* write_all: self.0.write_all(&encoded_data)
DeviceWrite ==
    /\ pc = "wa_called"
    /\ \E ok \in BOOLEAN :
         /\ devOps' = Append(devOps, [op |-> "write", ok |-> ok, len |-> waLen])
         /\ devOutcome' = IF ok THEN "ok" ELSE "err"
         /\ pc' = AfterDeviceWrite(IF ok THEN "ok" ELSE "err")
    /\ devWrites' = devWrites + 1
    /\ UNCHANGED <<devState, devOptions, handle, newResult, waLen, waResult, othersOfAdapter>>

\* write_all: .map_err(|_| format!("Failed to send {} bytes ...", encoded_data.len()))
WriteAllReturn ==
    /\ pc = "wa_return"
    /\ waResult' = IF devOutcome = "ok" THEN Ok ELSE WriteAllErr(waLen)
    /\ pc' = "ready"
    /\ UNCHANGED <<devState, devOptions, devOps, handle, newResult,
                   waLen, devWrites, devOutcome, othersOfAdapter>>

NextAdapter ==
    \/ OpenDevice \/ ConfigureDevice
    \/ CallWriteAll \/ DeviceWrite \/ WriteAllReturn

SpecAdapter == InitAdapter /\ [][NextAdapter]_vars

\* C8: when the device write fails, write_all returns a failure whose
\* message carries the length of the buffer passed in, and issues no
\* further write for that call; when it succeeds, write_all returns success
\* after exactly one device write.
C8_WriteAllReportsAndNeverRetries ==
    /\ devWrites <= 1
    /\ pc = "wa_return" => devWrites = 1
    /\ waResult # <<>> =>
         /\ devWrites = 1
         /\ devOps[Len(devOps)].op = "write"
         /\ devOps[Len(devOps)].len = waLen
         /\ devOutcome = "err" =>
              /\ waResult[1] = "Err"
              /\ waResult[2][2] = waLen
         /\ devOutcome = "ok" => waResult = Ok

C8_Witness ==
    /\ pc = "ready" /\ devOutcome = "err" /\ waLen = MaxBufLen
    /\ waResult = Err(<<"Failed to send", MaxBufLen, "bytes via SPI">>)
    /\ devWrites = 1

OpsOf(kind) == {k \in 1..Len(devOps) : devOps[k].op = kind}

\* C9: constructing the adapter opens the device and then configures it
\* (8 bits per word, max speed 15_600_000, SPI mode 0), in that order; a
\* handle is returned only if both succeeded, so no write reaches an
\* unconfigured device; a failure of either step is returned as a failure
\* that names it, is not retried, and yields no handle.
C9_HandleOnlyAfterOpenAndConfigure ==
    /\ Cardinality(OpsOf("open")) <= 1
    /\ Cardinality(OpsOf("configure")) <= 1
    /\ OpsOf("open") \subseteq {1}
    /\ OpsOf("configure") \subseteq {2}
    /\ OpsOf("configure") # {} => devOps[1] = [op |-> "open", ok |-> TRUE, len |-> 0]
    /\ handle =>
         /\ devOps[1].ok /\ devOps[2].ok
         /\ devState = "configured"
         /\ devOptions = <<[bits_per_word |-> 8, max_speed_hz |-> 15600000, mode |-> 0]>>
         /\ newResult = Ok
    /\ OpsOf("write") # {} => (handle /\ devState = "configured")
    /\ \A k \in OpsOf("write") : k > 2
    /\ (\E k \in 1..Len(devOps) : devOps[k].op \in {"open", "configure"} /\ ~devOps[k].ok) =>
         /\ ~handle
         /\ newResult = Err(devOps[Len(devOps)].op)
         /\ pc = "new_failed"
         /\ OpsOf("write") = {}
    /\ pc = "new_failed" => (~handle /\ newResult # <<>> /\ newResult[1] = "Err")

C9_Witness ==
    /\ handle /\ devState = "configured" /\ OpsOf("write") # {}
    /\ devOps[1].op = "open" /\ devOps[2].op = "configure"

=============================================================================
